---- MODULE Spec2Model ----
(***************************************************************************)
(* Hex-tile ownership and territory economy of habeks-explorer.            *)
(*                                                                         *)
(* Spec         : OwnershipMap page + useHexTiles hook + DataService cache *)
(*                (selection purchase, bulk purchase, per-cell update).    *)
(* SpecScenario : the same handlers on the region of 37 free cells.        *)
(* SpecDisk     : the disk / neighbour functions of h3Utils.ts and         *)
(*                hexUtils.ts.                                             *)
(***************************************************************************)
EXTENDS Integers, Sequences, FiniteSets, TLC

(***************************************************************************)
(* Bounds of the model.                                                    *)
(***************************************************************************)
\* purchase attempts that reach the await of updateMultipleHexOwnership
MaxPurchases == 2
\* largest radius handed to the disk functions in SpecDisk
MaxRadius == 5

(***************************************************************************)
(* The hexagonal lattice.  A cell is a pair <<q, r>> of axial coordinates  *)
(* of one resolution; h3-js addresses the same cells by opaque strings.    *)
(* gridDisk / gridDistance are the h3-js calls the sources import; they    *)
(* are computed here on a hexagon-only part of the grid.                   *)
(***************************************************************************)
Abs(x) == IF x < 0 THEN -x ELSE x

Max2(a, b) == IF a >= b THEN a ELSE b

gridDistance(a, b) ==
  Max2(Max2(Abs(a[1] - b[1]), Abs(a[2] - b[2])),
       Abs((a[1] + a[2]) - (b[1] + b[2])))

gridDisk(c, k) ==
  { d \in { <<c[1] + dq, c[2] + dr>> : dq \in (0 - k)..k, dr \in (0 - k)..k } :
      gridDistance(c, d) <= k }

\* canonical enumeration order of a finite set of cells
CellLess(a, b) == a[1] < b[1] \/ (a[1] = b[1] /\ a[2] < b[2])

RECURSIVE SeqOf(_)
SeqOf(S) ==
  IF S = {} THEN << >>
  ELSE LET m == CHOOSE x \in S : \A y \in S \ {x} : CellLess(x, y)
       IN  <<m>> \o SeqOf(S \ {m})

Range(s) == { s[i] : i \in 1..Len(s) }

\* every ordering of a finite set (insertion orders of a JS Set)
Orders(S) ==
  { s \in [1..Cardinality(S) -> S] : Range(s) = S }

(***************************************************************************)
(* Tiles.                                                                  *)
(***************************************************************************)
NoOwner == "null"

Tile(st, ow, pr, lu) ==
  [ownershipStatus |-> st, owner |-> ow, price |-> pr, lastUpdated |-> lu]

Origin == <<0, 0>>

\* cells of the examples: A free, B owned, C enemy, E free and far away
CellA == <<0, 0>>
CellB == <<1, 0>>
CellC == <<2, 0>>
CellE == <<5, 0>>

\* cells the player clicks on the map
ClickCells == {CellA, CellB, CellE}

\* region payload (hex-tiles.json) with every ownership status
MixedTiles ==
  (CellA :> Tile("free", NoOwner, 100, 0)) @@
  (CellB :> Tile("owned", "demo_player_123", 150, 0)) @@
  (CellC :> Tile("enemy", "rival_corp", 200, 0)) @@
  (CellE :> Tile("free", NoOwner, 1600, 0))

\* region payload of the 37-cell scenario: disk(C0, 3) all free at price 100
UniformTiles == [c \in gridDisk(Origin, 3) |-> Tile("free", NoOwner, 100, 0)]

Payloads == {MixedTiles}

\* currency.tokens when the map page opens (the saved currency of the player)
InitialTokens == {2500}

(***************************************************************************)
(* State.                                                                  *)
(***************************************************************************)
VARIABLES
  hexCache,          \* DataService.hexCache: tiles of the cached region, by cell
  hexTiles,          \* useHexTiles state: per cell, the cache's object or a copy
  selectedHexes,     \* OwnershipMap state: selected cells
  totalPurchaseCost, \* OwnershipMap state, set by the effect on selectedHexes
  bulkPurchaseMode,  \* OwnershipMap state
  tokens,            \* currency.tokens of the layout
  notification,      \* notification of the layout (the toast)
  inflight,          \* purchase handlers suspended at their await, oldest first
  now,               \* Date.now()
  started,           \* history: purchase attempts that reached their await
  justCommitted,     \* history: target of the purchase that has just turned
                     \*          cells owned, until the next purchase is attempted
  grants,            \* history: per cell, the commits of attempts that saw it free
  diskIn,            \* SpecDisk: <<center, radius>> handed to the disk functions
  diskOut,           \* SpecDisk: the latest call and its result
  regionIn,          \* SpecRegion: <<latitude, longitude>> to classify
  regionOut,         \* SpecRegion: the region each service returned
  regionCache,       \* SpecLoad: DataService.hexCache, region -> RegionData
  serviceCache,      \* SpecLoad: HexTileService.cache, region -> payload
  loading,           \* SpecLoad: the loads awaiting their fetch
  loaded,            \* SpecLoad: what the finished loads returned
  loadCount,         \* SpecLoad: the number of loads started so far
  fetched,           \* SpecLoad: fetches per loader and region since its
                     \* entry was last cleared
  hook,              \* SpecLoad: the state of useHexTiles
  loadOp,            \* SpecLoad: the latest operation
  ctx,               \* SpecCtx, SpecStore: the MapState of MapContext
  currency,          \* SpecCtx: currency.tokens handed to the purchase
  saving,            \* SpecCtx: purchases suspended at saveHexTileChanges
  purchaseOut,       \* SpecCtx: the latest purchase and what it returned
  zoomIn,            \* SpecZoom: <<zoom, zoom>> in tenths of a zoom level
  zoomOut,           \* SpecZoom: the resolutions each table returned
  cellIn,            \* SpecSpatial: <<targetHex, centerHex, maxDistance>>
  cellOut,           \* SpecSpatial: what each spatial operation returned
  geo,               \* SpecGeo: the fields of GeolocationService
  watches,           \* SpecGeo: the position watches the browser holds
  ar,                \* SpecAR: the state of ARCollectionPage
  balance,           \* SpecBalance: currency.tokens of the application
  debits             \* SpecBalance: the handlers suspended before their debit

ownVars ==
  <<hexCache, hexTiles, selectedHexes, totalPurchaseCost, bulkPurchaseMode,
    tokens, notification, inflight, now, started, justCommitted, grants>>

diskVars == <<diskIn, diskOut>>

regionVars == <<regionIn, regionOut>>

loadVars ==
  <<regionCache, serviceCache, loading, loaded, loadCount, fetched, hook,
    loadOp>>

ctxVars == <<ctx, currency, saving, purchaseOut>>

zoomVars == <<zoomIn, zoomOut>>

\* the variables of the utilities and of the device services
spatialVars == <<cellIn, cellOut>>

geoVars == <<geo, watches>>

balanceVars == <<balance, debits>>

restVars == <<zoomVars, spatialVars, geoVars, ar, balanceVars>>

baseVars == <<ownVars, diskVars, regionVars, loadVars, ctxVars>>

vars == <<baseVars, restVars>>

\* what the steps of one specification leave alone
exceptOwnVars == <<diskVars, regionVars, loadVars, ctxVars, restVars>>

exceptDiskVars == <<ownVars, regionVars, loadVars, ctxVars, restVars>>

exceptRegionVars == <<ownVars, diskVars, loadVars, ctxVars, restVars>>

exceptLoadVars == <<ownVars, diskVars, regionVars, ctxVars, restVars>>

exceptZoomVars == <<baseVars, spatialVars, geoVars, ar, balanceVars>>

exceptSpatialVars == <<baseVars, zoomVars, geoVars, ar, balanceVars>>

exceptGeoVars == <<baseVars, zoomVars, spatialVars, ar, balanceVars>>

exceptARVars == <<baseVars, zoomVars, spatialVars, geoVars, balanceVars>>

exceptBalanceVars == <<baseVars, zoomVars, spatialVars, geoVars, ar>>

NoTiles == [c \in {} |-> Tile("free", NoOwner, 0, 0)]

\* an element of the hook's array: the very object the cache holds, or a copy
SharedTile == [shared |-> TRUE, tile |-> Tile("free", NoOwner, 0, 0)]

CopiedTile(t) == [shared |-> FALSE, tile |-> t]

HookTile(c) == IF hexTiles[c].shared THEN hexCache[c] ELSE hexTiles[c].tile

\* the hexTiles array as a render of OwnershipMap reads it
HexTilesView == [c \in DOMAIN hexTiles |-> HookTile(c)]

StatusIn(tiles, c) ==
  IF c \in DOMAIN tiles THEN tiles[c].ownershipStatus ELSE "absent"

RECURSIVE SumPrice(_, _)
SumPrice(S, tiles) ==
  IF S = {} THEN 0
  ELSE LET c == CHOOSE x \in S : TRUE
       IN  tiles[c].price + SumPrice(S \ {c}, tiles)

FreeIn(tiles, S) ==
  { c \in S : c \in DOMAIN tiles /\ tiles[c].ownershipStatus = "free" }

(***************************************************************************)
(* hexUtils.calculateBulkPurchaseCost                                      *)
(***************************************************************************)
calculateBulkPurchaseCost(centerHex, radius, tiles) ==
  LET hexIds == gridDisk(centerHex, radius)
      available == FreeIn(tiles, hexIds)
  IN  [totalCost |-> SumPrice(available, tiles),
       hexIds |-> hexIds,
       availableHexes |-> SeqOf(available)]

\* the effect of OwnershipMap on selectedHexes: 1000 tokens per hex
SelectionCost(sel) == Cardinality(sel) * 1000

\* the balance check of the purchase handlers
InsufficientFundsNever(tk, cost) == FALSE

InsufficientFunds(tk, cost) == tk < cost

(***************************************************************************)
(* Notifications of the purchase handlers.                                 *)
(***************************************************************************)
NoNotification == [kind |-> "none", count |-> 0, cost |-> 0]

\* `Недостаточно токенов. Нужно: ${cost}`
NotEnoughTokens(cost) == [kind |-> "NotEnoughTokens", count |-> 0, cost |-> cost]

\* 'Нет доступных гексов для покупки в этой области'
NoAvailableHexes == [kind |-> "NoAvailableHexes", count |-> 0, cost |-> 0]

\* `Куплено ${count} гексов за ${cost} токенов!`
Purchased(count, cost) == [kind |-> "Purchased", count |-> count, cost |-> cost]

(***************************************************************************)
(* The attempt a purchase handler leaves suspended at                      *)
(* `await updateMultipleHexOwnership(hexIds, 'owned')`: the values its     *)
(* closure holds, the results of the per-cell updates so far, and history  *)
(* (target, seen, before, alone, repeat).                                  *)
(***************************************************************************)
Attempt(kind, ids, cost, target) ==
  [kind |-> kind, hexIds |-> ids, results |-> << >>,
   tokens |-> tokens, cost |-> cost,
   target |-> target,
   seen |-> [c \in target |-> StatusIn(hexCache, c)],
   before |-> << >>,
   alone |-> (inflight = << >>),
   repeat |-> (justCommitted = target)]

(***************************************************************************)
(* Construction: nothing loaded, nothing selected.                         *)
(***************************************************************************)
InitOwn ==
  /\ hexCache = NoTiles
  /\ hexTiles = NoTiles
  /\ selectedHexes = {}
  /\ totalPurchaseCost = 0
  /\ bulkPurchaseMode = FALSE
  /\ tokens \in InitialTokens
  /\ notification = NoNotification
  /\ inflight = << >>
  /\ now = 0
  /\ started = 0
  /\ justCommitted = {}
  /\ grants = [c \in {} |-> 0]

NoCall == [fn |-> "none", cells |-> {}]

InitDiskIdle ==
  /\ diskIn = <<Origin, 0>>
  /\ diskOut = NoCall

NoRegions == [ds |-> "none", hts |-> "none"]

InitRegionIdle ==
  /\ regionIn = <<0, 0>>
  /\ regionOut = NoRegions

RegionNames == {"moscow", "london"}

Loaders == {"DataService", "HexTileService"}

Absent == [kind |-> "absent"]

NoPoint == <<0, 0>>

NoOp == [fn |-> "none", region |-> "none"]

\* the state after the services are constructed and useHexTiles has mounted
\* without a location
InitLoad ==
  /\ regionCache = [r \in RegionNames |-> Absent]
  /\ serviceCache = [r \in RegionNames |-> Absent]
  /\ loading = {}
  /\ loaded = {}
  /\ loadCount = 0
  /\ fetched = [ld \in Loaders |-> [r \in RegionNames |-> 0]]
  /\ hook = [location |-> NoPoint, hexTiles |-> [kind |-> "list", tiles |-> NoTiles],
             lastLoadedLocation |-> NoPoint, effect |-> FALSE,
             seq |-> 0, shown |-> NoPoint,
             newest |-> [seq |-> 0, point |-> NoPoint]]
  /\ loadOp = NoOp

\* initialState of MapContext
initialState ==
  [hexTiles |-> NoTiles, selectedHexes |-> {}, bulkPurchaseMode |-> FALSE,
   totalPurchaseCost |-> 0, region |-> "none"]

NoPurchase ==
  [kind |-> "none", hexIds |-> {}, region |-> "none", cost |-> 0, count |-> 0]

InitCtxIdle ==
  /\ ctx = initialState
  /\ currency = 0
  /\ saving = << >>
  /\ purchaseOut = NoPurchase

NoResolutions == [hexUtils |-> << >>, h3Utils |-> << >>, HexGrid |-> << >>]

InitZoomIdle ==
  /\ zoomIn = <<0, 0>>
  /\ zoomOut = NoResolutions

\* an H3 index: a cell of the lattice at a resolution, or a malformed key
Cell(resolution, at) == [valid |-> TRUE, resolution |-> resolution, at |-> at]

InvalidCell == [valid |-> FALSE, resolution |-> 0, at |-> <<0, 0>>]

NotCalled == [kind |-> "none"]

InitSpatialIdle ==
  /\ cellIn = <<InvalidCell, InvalidCell, 0>>
  /\ cellOut = [within |-> NotCalled, neighbors |-> NotCalled, cost |-> NotCalled]

\* the fields of a new GeolocationService
InitGeo ==
  /\ geo = [watchId |-> 0, callbacks |-> << >>, issued |-> 0, gone |-> {},
            notified |-> {}, updates |-> 0, started |-> 0, last |-> "none"]
  /\ watches = {}

NoCapture == [itemId |-> 0, progress |-> 0]

InitARIdle ==
  ar = [isMoving |-> FALSE, activeCapture |-> NoCapture, arObjects |-> {},
        inventory |-> << >>, tokens |-> 0, made |-> 0, last |-> "none"]

NoDebit == [kind |-> "none", tokens |-> 0, cost |-> 0, before |-> 0]

NoDebits == [pending |-> {}, started |-> 0, last |-> NoDebit]

InitBalanceIdle ==
  /\ balance = 0
  /\ debits = NoDebits

InitRestIdle ==
  InitZoomIdle /\ InitSpatialIdle /\ InitGeo /\ InitARIdle /\ InitBalanceIdle

InitIdle ==
  InitDiskIdle /\ InitRegionIdle /\ InitLoad /\ InitCtxIdle /\ InitRestIdle

Init == InitOwn /\ InitIdle

(***************************************************************************)
(* useHexTiles.loadHexTiles on a cache miss: DataService.loadHexTiles      *)
(* fetches the payload, caches it and returns the cached array itself,     *)
(* which becomes the hook's state.                                         *)
(***************************************************************************)
LoadHexTiles(payload) ==
  /\ DOMAIN hexCache = {}
  /\ hexCache' = payload
  /\ hexTiles' = [c \in DOMAIN payload |-> SharedTile]
  /\ UNCHANGED <<selectedHexes, totalPurchaseCost, bulkPurchaseMode, tokens,
                 notification, inflight, now, started, justCommitted, grants>>

(***************************************************************************)
(* OwnershipMap: the bulk-mode button, handleHexClick outside bulk mode,   *)
(* clearSelection; the layout: onClose of the toast.                       *)
(***************************************************************************)
ToggleBulkPurchaseMode ==
  /\ bulkPurchaseMode' = ~bulkPurchaseMode
  /\ UNCHANGED <<hexCache, hexTiles, selectedHexes, totalPurchaseCost, tokens,
                 notification, inflight, now, started, justCommitted, grants>>

handleHexClickSelect(hexId) ==
  /\ ~bulkPurchaseMode
  /\ LET newSelection ==
           IF hexId \in selectedHexes THEN selectedHexes \ {hexId}
           ELSE selectedHexes \cup {hexId}
     IN  /\ selectedHexes' = newSelection
         /\ totalPurchaseCost' = SelectionCost(newSelection)
  /\ UNCHANGED <<hexCache, hexTiles, bulkPurchaseMode, tokens, notification,
                 inflight, now, started, justCommitted, grants>>

clearSelection ==
  /\ selectedHexes # {}
  /\ selectedHexes' = {}
  /\ totalPurchaseCost' = SelectionCost({})
  /\ UNCHANGED <<hexCache, hexTiles, bulkPurchaseMode, tokens, notification,
                 inflight, now, started, justCommitted, grants>>

closeNotification ==
  /\ notification # NoNotification
  /\ notification' = NoNotification
  /\ UNCHANGED <<hexCache, hexTiles, selectedHexes, totalPurchaseCost,
                 bulkPurchaseMode, tokens, inflight, now, started,
                 justCommitted, grants>>

(***************************************************************************)
(* OwnershipMap.handleBulkPurchase up to its await (a click in bulk mode). *)
(***************************************************************************)
handleBulkPurchase(centerHexId) ==
  /\ bulkPurchaseMode
  /\ LET data == calculateBulkPurchaseCost(centerHexId, 3, HexTilesView)
         ids == data.availableHexes
     IN  IF InsufficientFunds(tokens, data.totalCost)
         THEN /\ notification' = NotEnoughTokens(data.totalCost)
              /\ UNCHANGED <<inflight, started>>
         ELSE IF Len(ids) = 0
         THEN /\ notification' = NoAvailableHexes
              /\ UNCHANGED <<inflight, started>>
         ELSE /\ started < MaxPurchases
              /\ inflight' =
                   Append(inflight,
                          Attempt("bulk", ids, data.totalCost, data.hexIds))
              /\ started' = started + 1
              /\ UNCHANGED notification
  /\ justCommitted' = {}
  /\ UNCHANGED <<hexCache, hexTiles, selectedHexes, totalPurchaseCost,
                 bulkPurchaseMode, tokens, now, grants>>

(***************************************************************************)
(* OwnershipMap.handlePurchaseSelected up to its await.  Array.from takes  *)
(* the cells in the insertion order of the Set.                            *)
(***************************************************************************)
handlePurchaseSelected ==
  /\ selectedHexes # {}
  /\ IF InsufficientFunds(tokens, totalPurchaseCost)
     THEN /\ notification' = NotEnoughTokens(totalPurchaseCost)
          /\ UNCHANGED <<inflight, started>>
     ELSE /\ started < MaxPurchases
          /\ \E ids \in Orders(selectedHexes) :
               inflight' =
                 Append(inflight,
                        Attempt("selected", ids, totalPurchaseCost,
                                selectedHexes))
          /\ started' = started + 1
          /\ UNCHANGED notification
  /\ justCommitted' = {}
  /\ UNCHANGED <<hexCache, hexTiles, selectedHexes, totalPurchaseCost,
                 bulkPurchaseMode, tokens, now, grants>>

(***************************************************************************)
(* DataService.updateHexOwnership after its 300 ms timer: the tile of the  *)
(* cache is overwritten in place, whatever its status was.                 *)
(***************************************************************************)
\* a status that ignores the owner
StatusForOwned(newOwner) == "owned"

StatusFor(newOwner) == IF newOwner # NoOwner THEN "owned" ELSE "free"

updateHexOwnershipFound(cache, hexId) == hexId \in DOMAIN cache

\* an update that keeps the old lastUpdated
updateHexOwnershipCacheStale(cache, hexId, newOwner, t) ==
  IF updateHexOwnershipFound(cache, hexId)
  THEN [cache EXCEPT ![hexId] =
          [@ EXCEPT !.owner = newOwner,
                    !.ownershipStatus = StatusFor(newOwner)]]
  ELSE cache

updateHexOwnershipCache(cache, hexId, newOwner, t) ==
  IF updateHexOwnershipFound(cache, hexId)
  THEN [cache EXCEPT ![hexId] =
          [@ EXCEPT !.owner = newOwner,
                    !.ownershipStatus = StatusFor(newOwner),
                    !.lastUpdated = t]]
  ELSE cache

\* the hexId the oldest suspended attempt updates next
NextHex(a) == a.hexIds[Len(a.results) + 1]

\* the attempt after the update of NextHex(a): its result, and the status
\* the cell had just before
Advance(a) ==
  [a EXCEPT
     !.results = Append(@, updateHexOwnershipFound(hexCache, NextHex(a))),
     !.before = Append(@, StatusIn(hexCache, NextHex(a)))]

updateHexOwnershipStep ==
  /\ inflight # << >>
  /\ LET a == inflight[1]
     IN  /\ Len(a.results) + 1 < Len(a.hexIds)
         /\ now' = now + 1
         /\ hexCache' = updateHexOwnershipCache(hexCache, NextHex(a), "owned", now')
         /\ inflight' = <<Advance(a)>> \o Tail(inflight)
  /\ UNCHANGED <<hexTiles, selectedHexes, totalPurchaseCost, bulkPurchaseMode,
                 tokens, notification, started, justCommitted, grants>>

(***************************************************************************)
(* The last update of an attempt resolves Promise.all: the rest of         *)
(* useHexTiles.updateMultipleHexOwnership and of the purchase handler run  *)
(* in the same task.                                                       *)
(***************************************************************************)
Successful(a) == { a.hexIds[j] : j \in { i \in 1..Len(a.results) : a.results[i] } }

\* setHexTiles(prev => prev.map(...)) of updateMultipleHexOwnership
MarkOwned(prevTiles, cache, successfulHexIds, newOwner, t) ==
  [c \in DOMAIN prevTiles |->
     IF c \in successfulHexIds
     THEN CopiedTile(
            [(IF prevTiles[c].shared THEN cache[c] ELSE prevTiles[c].tile)
               EXCEPT !.owner = newOwner,
                      !.ownershipStatus = StatusFor(newOwner),
                      !.lastUpdated = t])
     ELSE prevTiles[c]]

\* useHexTiles.refresh at the end of handleBulkPurchase: lastLoadedLocation is
\* reset, the load effect runs again, DataService.loadHexTiles hits the cache
\* and the hook takes the cached array again
Refreshed(cache) == [c \in DOMAIN cache |-> SharedTile]

\* a handler that forgets the debit
DebitedNothing(a) == a.tokens

\* setCurrency({...currency, tokens: currency.tokens - cost}) of the handlers
Debited(a) == a.tokens - a.cost

\* history: the target cells that were free in the cache when the handler ran
Eligible(a) == { c \in DOMAIN a.seen : a.seen[c] = "free" }

\* history: cells of the attempt that were not yet owned when it wrote them
Became(a) ==
  { a.hexIds[j] :
      j \in { i \in 1..Len(a.before) : a.results[i] /\ a.before[i] # "owned" } }

\* history: one more commit for every cell the attempt saw free and wrote
Granted(g, cells) ==
  [c \in DOMAIN g \cup cells |->
     (IF c \in DOMAIN g THEN g[c] ELSE 0) + (IF c \in cells THEN 1 ELSE 0)]

completePurchase ==
  /\ inflight # << >>
  /\ LET a == inflight[1]
         b == Advance(a)
         ok == Successful(b)
     IN  /\ Len(a.results) + 1 = Len(a.hexIds)
         /\ now' = now + 1
         /\ hexCache' = updateHexOwnershipCache(hexCache, NextHex(a), "owned", now')
         /\ inflight' = Tail(inflight)
         /\ tokens' = Debited(b)
         /\ notification' = Purchased(Len(b.hexIds), b.cost)
         /\ IF b.kind = "selected"
            THEN /\ hexTiles' =
                      IF ok # {}
                      THEN MarkOwned(hexTiles, hexCache', ok, "owned", now')
                      ELSE hexTiles
                 /\ selectedHexes' = {}
                 /\ totalPurchaseCost' = SelectionCost({})
                 /\ UNCHANGED bulkPurchaseMode
            ELSE /\ hexTiles' = Refreshed(hexCache')
                 /\ bulkPurchaseMode' = FALSE
                 /\ UNCHANGED <<selectedHexes, totalPurchaseCost>>
         /\ justCommitted' = IF Became(b) # {} THEN b.target ELSE {}
         /\ grants' = Granted(grants, ok \cap Eligible(b))
  /\ UNCHANGED started

NextOwn ==
  \/ \E payload \in Payloads : LoadHexTiles(payload)
  \/ ToggleBulkPurchaseMode
  \/ \E hexId \in ClickCells : handleHexClickSelect(hexId)
  \/ clearSelection
  \/ closeNotification
  \/ \E centerHexId \in ClickCells : handleBulkPurchase(centerHexId)
  \/ handlePurchaseSelected
  \/ updateHexOwnershipStep
  \/ completePurchase

Next == NextOwn /\ UNCHANGED exceptOwnVars

Spec == Init /\ [][Next]_vars

(***************************************************************************)
(* The 37-cell scenario: the region of disk(C0, 3), every cell free at     *)
(* price 100, is loaded and shown; the balance is 5000 or 3000; the player *)
(* buys in bulk around C0.                                                 *)
(***************************************************************************)
ScenarioTokens == {5000, 3000}

ScenarioCenters == {Origin}

InitScenario ==
  /\ hexCache = UniformTiles
  /\ hexTiles = Refreshed(UniformTiles)
  /\ selectedHexes = {}
  /\ totalPurchaseCost = 0
  /\ bulkPurchaseMode = FALSE
  /\ tokens \in ScenarioTokens
  /\ notification = NoNotification
  /\ inflight = << >>
  /\ now = 0
  /\ started = 0
  /\ justCommitted = {}
  /\ grants = [c \in {} |-> 0]
  /\ InitIdle

NextScenario ==
  /\ \/ ToggleBulkPurchaseMode
     \/ \E centerHexId \in ScenarioCenters : handleBulkPurchase(centerHexId)
     \/ updateHexOwnershipStep
     \/ completePurchase
  /\ UNCHANGED exceptOwnVars

SpecScenario == InitScenario /\ [][NextScenario]_vars

(***************************************************************************)
(* SpecDisk: the disk functions applied to a center and a radius.          *)
(***************************************************************************)
DiskCenters == { <<q, r>> : q \in (0 - 1)..1, r \in (0 - 1)..1 }

\* a neighbour list that leaves the center out
getNeighborHexesNoCenter(hexId, rings) == gridDisk(hexId, rings) \ {hexId}

\* h3Utils.getNeighborHexes
getNeighborHexes(hexId, rings) == gridDisk(hexId, rings)

\* h3Utils.getBulkPurchaseHexes
getBulkPurchaseHexes(centerHexId) == gridDisk(centerHexId, 3)

\* hexUtils.getNeighborHexes (of a valid cell): the disk without its center
hexUtilsGetNeighborHexes(h3Index, radius) ==
  { hex \in gridDisk(h3Index, radius) : hex # h3Index }

InitDisk ==
  /\ InitOwn
  /\ diskIn \in DiskCenters \X (0..MaxRadius)
  /\ diskOut = NoCall
  /\ InitRegionIdle
  /\ InitLoad
  /\ InitCtxIdle
  /\ InitRestIdle

callGetNeighborHexes ==
  /\ diskOut' = [fn |-> "h3Utils.getNeighborHexes",
                 cells |-> getNeighborHexes(diskIn[1], diskIn[2])]
  /\ UNCHANGED <<diskIn, exceptDiskVars>>

callGetBulkPurchaseHexes ==
  /\ diskOut' = [fn |-> "h3Utils.getBulkPurchaseHexes",
                 cells |-> getBulkPurchaseHexes(diskIn[1])]
  /\ UNCHANGED <<diskIn, exceptDiskVars>>

callHexUtilsGetNeighborHexes ==
  /\ diskOut' = [fn |-> "hexUtils.getNeighborHexes",
                 cells |-> hexUtilsGetNeighborHexes(diskIn[1], diskIn[2])]
  /\ UNCHANGED <<diskIn, exceptDiskVars>>

NextDisk ==
  \/ callGetNeighborHexes
  \/ callGetBulkPurchaseHexes
  \/ callHexUtilsGetNeighborHexes

SpecDisk == InitDisk /\ [][NextDisk]_vars


(***************************************************************************)
(* SpecRegion: getRegionByCoordinates of DataService and of                *)
(* HexTileService applied to a coordinate.  Coordinates are in thousandths *)
(* of a degree.                                                            *)
(***************************************************************************)
MoscowBox(latitude, longitude) ==
  /\ latitude >= 55000 /\ latitude <= 56500
  /\ longitude >= 36000 /\ longitude <= 39000

LondonBox(latitude, longitude) ==
  /\ latitude >= 51000 /\ latitude <= 52000
  /\ longitude >= 0 - 1000 /\ longitude <= 1000

\* a classifier whose default is the other region
getRegionByCoordinatesLondonDefault(latitude, longitude) ==
  IF MoscowBox(latitude, longitude) THEN "moscow" ELSE "london"

\* DataService.getRegionByCoordinates
getRegionByCoordinates(latitude, longitude) ==
  IF MoscowBox(latitude, longitude) THEN "moscow"
  ELSE IF LondonBox(latitude, longitude) THEN "london"
  ELSE "moscow"

\* HexTileService.getRegionByCoordinates
hexTileServiceGetRegionByCoordinates(latitude, longitude) ==
  IF MoscowBox(latitude, longitude) THEN "moscow"
  ELSE IF LondonBox(latitude, longitude) THEN "london"
  ELSE "moscow"

Latitudes ==
  {0 - 33870, 0, 50999, 51000, 51500, 52000, 52001, 54999, 55000, 55750,
   56500, 56501}

Longitudes ==
  {0 - 1001, 0 - 1000, 0 - 100, 1000, 1001, 35999, 36000, 37620, 39000,
   39001}

InitRegion ==
  /\ InitOwn
  /\ InitDiskIdle
  /\ regionIn \in Latitudes \X Longitudes
  /\ regionOut = NoRegions
  /\ InitLoad
  /\ InitCtxIdle
  /\ InitRestIdle

callDataServiceRegion ==
  /\ regionOut' =
       [regionOut EXCEPT !.ds = getRegionByCoordinates(regionIn[1], regionIn[2])]
  /\ UNCHANGED <<regionIn, exceptRegionVars>>

callHexTileServiceRegion ==
  /\ regionOut' =
       [regionOut EXCEPT
          !.hts = hexTileServiceGetRegionByCoordinates(regionIn[1], regionIn[2])]
  /\ UNCHANGED <<regionIn, exceptRegionVars>>

NextRegion ==
  \/ callDataServiceRegion
  \/ callHexTileServiceRegion

SpecRegion == InitRegion /\ [][NextRegion]_vars


(***************************************************************************)
(* SpecLoad: the two tile loaders, their region caches and the hook that   *)
(* shows what DataService returns.  A fetch answers with a well-formed     *)
(* payload, with a payload without a tiles array, or fails.                *)
(***************************************************************************)
MaxLoads == 2

\* the map centres of the two regions, in thousandths of a degree
Points == {<<55750, 37620>>, <<55755, 37625>>, <<51500, 0 - 100>>}

Outcomes == {"ok", "malformed", "failed"}

\* Math.random() and Date.now() of generateFallbackHexTiles
FallbackSeeds == {1, 2}

Listed(tiles) == [kind |-> "list", tiles |-> tiles]

Undefined == [kind |-> "undefined"]

generateFallbackHexTiles(point, seed) ==
  [kind |-> "fallback", point |-> point, seed |-> seed]

\* the threshold test of useHexTiles.loadHexTiles
Near(a, b) == Abs(a[1] - b[1]) < 10 /\ Abs(a[2] - b[2]) < 10

Returned(loader, point, cause, value) ==
  [loader |-> loader, point |-> point, cause |-> cause, value |-> value]

Fetching(loader, caller, point, seq) ==
  [loader |-> loader, caller |-> caller, point |-> point, seq |-> seq,
   id |-> loadCount + 1]

CountFetch(loader, region) ==
  [fetched EXCEPT ![loader][region] = @ + 1]

\* setHexTiles(tiles); setLastLoadedLocation(targetLocation): the callback
\* changes and the load effect runs again
HookShows(value, point, seq) ==
  [hook EXCEPT !.hexTiles = value, !.lastLoadedLocation = point,
               !.effect = TRUE, !.shown = point,
               !.newest = IF seq > @.seq THEN [seq |-> seq, point |-> point]
                          ELSE @]

\* the location prop of useHexTiles changes
hookSetLocation(point) ==
  /\ hook' = [hook EXCEPT !.location = point, !.effect = TRUE]
  /\ loadOp' = [fn |-> "setLocation", region |-> "none"]
  /\ UNCHANGED <<regionCache, serviceCache, loading, loaded, loadCount, fetched>>
  /\ UNCHANGED exceptLoadVars

\* the load effect of useHexTiles: loadHexTiles(location)
hookEffect ==
  /\ hook.effect
  /\ hook.location # NoPoint
  /\ LET point == hook.location
         region == getRegionByCoordinates(point[1], point[2])
     IN  IF hook.lastLoadedLocation # NoPoint
              /\ Near(hook.lastLoadedLocation, point)
         THEN /\ hook' = [hook EXCEPT !.effect = FALSE]
              /\ loadOp' = [fn |-> "loadHexTiles", region |-> "none"]
              /\ UNCHANGED <<regionCache, loading, loaded, loadCount, fetched>>
         ELSE /\ loadCount < MaxLoads
              /\ loadCount' = loadCount + 1
              /\ loadOp' = [fn |-> "loadHexTiles", region |-> region]
              /\ IF regionCache[region] # Absent
                 THEN /\ hook' = [HookShows(Listed(regionCache[region].tiles),
                                            point, hook.seq + 1)
                                    EXCEPT !.seq = @ + 1]
                      /\ loaded' = loaded \cup
                           {Returned("DataService", point, "cache",
                                     Listed(regionCache[region].tiles))}
                      /\ UNCHANGED <<regionCache, loading, fetched>>
                 ELSE /\ hook' = [hook EXCEPT !.effect = FALSE, !.seq = @ + 1]
                      /\ loading' = loading \cup
                           {Fetching("DataService", "hook", point, hook.seq + 1)}
                      /\ fetched' = CountFetch("DataService", region)
                      /\ UNCHANGED <<regionCache, loaded>>
  /\ UNCHANGED serviceCache
  /\ UNCHANGED exceptLoadVars

\* HexTileService.loadHexTilesForLocation up to its fetch
loadHexTilesForLocation(point) ==
  /\ loadCount < MaxLoads
  /\ loadCount' = loadCount + 1
  /\ LET region == hexTileServiceGetRegionByCoordinates(point[1], point[2])
     IN  /\ loadOp' = [fn |-> "loadHexTilesForLocation", region |-> region]
         /\ IF serviceCache[region] # Absent
            THEN /\ loaded' = loaded \cup
                      {Returned("HexTileService", point, "cache",
                                serviceCache[region].tiles)}
                 /\ UNCHANGED <<loading, fetched>>
            ELSE /\ loading' = loading \cup
                      {Fetching("HexTileService", "none", point, 0)}
                 /\ fetched' = CountFetch("HexTileService", region)
                 /\ UNCHANGED loaded
  /\ UNCHANGED <<regionCache, serviceCache, hook>>
  /\ UNCHANGED exceptLoadVars

\* DataService.loadHexTiles from the answer of its fetch on
dataServiceReturn(l, outcome, payload, seed) ==
  LET region == getRegionByCoordinates(l.point[1], l.point[2])
      value == IF outcome = "ok" THEN Listed(payload)
               ELSE generateFallbackHexTiles(l.point, seed)
  IN  /\ regionCache' =
           IF outcome = "ok"
           THEN [regionCache EXCEPT
                   ![region] = [region |-> region, tiles |-> payload]]
           ELSE regionCache
      /\ loaded' = loaded \cup {Returned("DataService", l.point, outcome, value)}
      /\ hook' = IF l.caller = "hook" THEN HookShows(value, l.point, l.seq)
                 ELSE hook
      /\ UNCHANGED serviceCache

\* HexTileService.loadHexTilesForLocation from the answer of its fetch on
hexTileServiceReturn(l, outcome, payload) ==
  LET region == hexTileServiceGetRegionByCoordinates(l.point[1], l.point[2])
      value == IF outcome = "ok" THEN Listed(payload) ELSE Listed(NoTiles)
  IN  /\ serviceCache' =
           CASE outcome = "ok" ->
                  [serviceCache EXCEPT ![region] = [tiles |-> Listed(payload)]]
             [] outcome = "malformed" ->
                  [serviceCache EXCEPT ![region] = [tiles |-> Undefined]]
             [] OTHER -> serviceCache
      /\ loaded' = loaded \cup
           {Returned("HexTileService", l.point, outcome, value)}
      /\ UNCHANGED <<regionCache, hook>>

completeLoad(l) ==
  /\ l \in loading
  /\ loading' = loading \ {l}
  /\ loadOp' = [fn |-> "completeLoad", region |-> "none"]
  /\ \E outcome \in Outcomes, seed \in FallbackSeeds :
       IF l.loader = "DataService"
       THEN dataServiceReturn(l, outcome, MixedTiles, seed)
       ELSE hexTileServiceReturn(l, outcome, MixedTiles)
  /\ UNCHANGED <<loadCount, fetched>>
  /\ UNCHANGED exceptLoadVars

\* Map.delete of a cache
DeleteAll(cache, region) == [r \in RegionNames |-> Absent]

Delete(cache, region) == [cache EXCEPT ![region] = Absent]

clearRegionCache(region) ==
  /\ regionCache' = Delete(regionCache, region)
  /\ fetched' = [fetched EXCEPT !["DataService"][region] = 0]
  /\ loadOp' = [fn |-> "clearRegionCache", region |-> region]
  /\ UNCHANGED <<serviceCache, loading, loaded, loadCount, hook>>
  /\ UNCHANGED exceptLoadVars

clearCache ==
  /\ regionCache' = [r \in RegionNames |-> Absent]
  /\ fetched' = [fetched EXCEPT !["DataService"] = [r \in RegionNames |-> 0]]
  /\ loadOp' = [fn |-> "clearCache", region |-> "none"]
  /\ UNCHANGED <<serviceCache, loading, loaded, loadCount, hook>>
  /\ UNCHANGED exceptLoadVars

hexTileServiceClearCache ==
  /\ serviceCache' = [r \in RegionNames |-> Absent]
  /\ fetched' = [fetched EXCEPT !["HexTileService"] = [r \in RegionNames |-> 0]]
  /\ loadOp' = [fn |-> "hexTileService.clearCache", region |-> "none"]
  /\ UNCHANGED <<regionCache, loading, loaded, loadCount, hook>>
  /\ UNCHANGED exceptLoadVars

NextLoad ==
  \/ \E point \in Points : hookSetLocation(point)
  \/ hookEffect
  \/ \E point \in Points : loadHexTilesForLocation(point)
  \/ \E l \in loading : completeLoad(l)
  \/ \E region \in RegionNames : clearRegionCache(region)
  \/ clearCache
  \/ hexTileServiceClearCache

SpecLoad == Init /\ [][NextLoad]_vars


(***************************************************************************)
(* MapContext: the cases of mapReducer that touch tiles and selection.     *)
(***************************************************************************)
SET_HEX_TILES(state, payload) == [state EXCEPT !.hexTiles = payload]

SET_REGION(state, payload) == [state EXCEPT !.region = payload]

\* the sum of hex?.price || 0 over a selection
PriceOf(state, selected) ==
  SumPrice(selected \cap DOMAIN state.hexTiles, state.hexTiles)

TOGGLE_HEX_SELECTION(state, hexId) ==
  LET newSelected == IF hexId \in state.selectedHexes
                     THEN state.selectedHexes \ {hexId}
                     ELSE state.selectedHexes \cup {hexId}
  IN  [state EXCEPT !.selectedHexes = newSelected,
                    !.totalPurchaseCost = PriceOf(state, newSelected)]

CLEAR_SELECTION(state) ==
  [state EXCEPT !.selectedHexes = {}, !.totalPurchaseCost = 0,
                !.bulkPurchaseMode = FALSE]

UPDATE_HEX_OWNERSHIP(state, hexIds, owner, t) ==
  [state EXCEPT !.hexTiles =
     [c \in DOMAIN @ |->
        IF c \in hexIds
        THEN [@[c] EXCEPT !.ownershipStatus = "owned", !.owner = owner,
                          !.lastUpdated = t]
        ELSE @[c]]]

(***************************************************************************)
(* SpecCtx: MapProvider over HexTileService: load, selection, and          *)
(* purchaseSelectedHexes with its saveHexTileChanges.                      *)
(***************************************************************************)
MaxCtxPurchases == 2

CtxTokens == {2500}

PlayerIds == {"demo_player_123"}

\* the hexes the player clicks
CtxCells == {CellA, CellB}

InitCtx ==
  /\ InitOwn
  /\ InitDiskIdle
  /\ InitRegionIdle
  /\ InitLoad
  /\ InitRestIdle
  /\ ctx = initialState
  /\ currency \in CtxTokens
  /\ saving = << >>
  /\ purchaseOut = NoPurchase

\* what else SpecLoad's variables keep in a step of the context
ServiceIdle ==
  /\ UNCHANGED <<regionCache, loading, loaded, loadCount, fetched, hook, loadOp>>
  /\ UNCHANGED <<ownVars, diskVars, regionVars, restVars>>

\* MapProvider.loadHexTiles: loadHexTilesForLocation, getRegionInfo and the
\* dispatches that follow
ctxLoadHexTiles(point, outcome, info) ==
  LET region == hexTileServiceGetRegionByCoordinates(point[1], point[2])
      hit == serviceCache[region] # Absent
      tiles == IF hit THEN serviceCache[region].tiles.tiles
               ELSE IF outcome = "ok" THEN MixedTiles ELSE NoTiles
      shown == SET_HEX_TILES(ctx, tiles)
  IN  /\ hit => serviceCache[region].tiles # Undefined
      /\ serviceCache' =
           IF ~hit /\ outcome = "ok"
           THEN [serviceCache EXCEPT ![region] = [tiles |-> Listed(MixedTiles)]]
           ELSE serviceCache
      /\ ctx' = IF info THEN SET_REGION(shown, region) ELSE shown
      /\ UNCHANGED <<currency, saving, purchaseOut>>
      /\ ServiceIdle

toggleHexSelection(hexId) ==
  /\ ctx' = TOGGLE_HEX_SELECTION(ctx, hexId)
  /\ UNCHANGED <<currency, saving, purchaseOut>>
  /\ UNCHANGED <<ownVars, diskVars, regionVars, loadVars, restVars>>

Rejected(kind) ==
  [kind |-> kind, hexIds |-> {}, region |-> "none", cost |-> 0,
   count |-> purchaseOut.count]

Bought(hexIds, region, cost) ==
  [kind |-> "purchased", hexIds |-> hexIds, region |-> region, cost |-> cost,
   count |-> purchaseOut.count]

\* purchaseSelectedHexes up to its await; without a region it runs to its end
purchaseSelectedHexes(playerId) ==
  /\ purchaseOut.count < MaxCtxPurchases
  /\ IF ctx.selectedHexes = {}
     THEN /\ purchaseOut' = [Rejected("nothing selected") EXCEPT !.count = @ + 1]
          /\ UNCHANGED <<ctx, currency, saving>>
     ELSE IF currency < ctx.totalPurchaseCost
     THEN /\ purchaseOut' = [Rejected("not enough tokens") EXCEPT !.count = @ + 1]
          /\ UNCHANGED <<ctx, currency, saving>>
     ELSE LET hexIds == ctx.selectedHexes
              updated == UPDATE_HEX_OWNERSHIP(ctx, hexIds, playerId, 1)
          IN  /\ currency' = currency - ctx.totalPurchaseCost
              /\ IF ctx.region # "none"
                 THEN /\ ctx' = updated
                      /\ saving' = Append(saving,
                           [tiles |-> ctx.hexTiles, region |-> ctx.region,
                            hexIds |-> hexIds, cost |-> ctx.totalPurchaseCost])
                      /\ purchaseOut' = [purchaseOut EXCEPT !.count = @ + 1]
                 ELSE /\ ctx' = CLEAR_SELECTION(updated)
                      /\ purchaseOut' =
                           [Bought(hexIds, "none", ctx.totalPurchaseCost)
                              EXCEPT !.count = @ + 1]
                      /\ UNCHANGED saving
  /\ UNCHANGED <<ownVars, diskVars, regionVars, loadVars, restVars>>

\* HexTileService.saveHexTileChanges after its 500 ms timer
saveHexTileChanges(cache, tiles, region) ==
  IF cache[region] # Absent
  THEN [cache EXCEPT ![region] = [tiles |-> Listed(tiles)]]
  ELSE cache

\* the timer of the oldest save fires: the rest of purchaseSelectedHexes
purchaseSaved ==
  /\ saving # << >>
  /\ LET p == saving[1]
     IN  /\ serviceCache' = saveHexTileChanges(serviceCache, p.tiles, p.region)
         /\ ctx' = CLEAR_SELECTION(ctx)
         /\ purchaseOut' = Bought(p.hexIds, p.region, p.cost)
         /\ saving' = Tail(saving)
  /\ UNCHANGED currency
  /\ ServiceIdle

NextCtx ==
  \/ \E point \in Points, outcome \in {"ok", "failed"}, info \in BOOLEAN :
       ctxLoadHexTiles(point, outcome, info)
  \/ \E hexId \in CtxCells : toggleHexSelection(hexId)
  \/ \E playerId \in PlayerIds : purchaseSelectedHexes(playerId)
  \/ purchaseSaved

SpecCtx == InitCtx /\ [][NextCtx]_vars

(***************************************************************************)
(* SpecStore: every writer of a tile's owner, with any owner: the cache of *)
(* DataService, the array of useHexTiles and the tiles of MapContext.      *)
(***************************************************************************)
MaxUpdates == 2

NewOwners == {"demo_player_123", "rival_corp", "owned", NoOwner}

InitStore == Init

StoreIdle ==
  /\ UNCHANGED <<selectedHexes, totalPurchaseCost, bulkPurchaseMode, tokens,
                 notification, inflight, started, justCommitted, grants>>
  /\ UNCHANGED <<diskVars, regionVars, loadVars, currency, saving, purchaseOut>>
  /\ UNCHANGED restVars

storeLoadHexTiles(payload) ==
  /\ LoadHexTiles(payload)
  /\ UNCHANGED exceptOwnVars

storeSetHexTiles(payload) ==
  /\ ctx.hexTiles = NoTiles
  /\ ctx' = SET_HEX_TILES(ctx, payload)
  /\ UNCHANGED <<hexCache, hexTiles, now>>
  /\ StoreIdle

\* useHexTiles.updateMultipleHexOwnership(hexIds, newOwner), and
\* updateHexOwnership(hexId, newOwner) for a single hexId
RECURSIVE UpdateAll(_, _, _, _)
UpdateAll(cache, hexIds, newOwner, t) ==
  IF hexIds = {} THEN cache
  ELSE LET c == CHOOSE x \in hexIds : TRUE
       IN  UpdateAll(updateHexOwnershipCache(cache, c, newOwner, t),
                     hexIds \ {c}, newOwner, t)

storeUpdateHexOwnership(hexIds, newOwner) ==
  /\ now < MaxUpdates
  /\ now' = now + 1
  /\ hexCache' = UpdateAll(hexCache, hexIds, newOwner, now')
  /\ LET ok == { c \in hexIds : updateHexOwnershipFound(hexCache, c) }
     IN  hexTiles' = IF ok # {}
                     THEN MarkOwned(hexTiles, hexCache', ok, newOwner, now')
                     ELSE hexTiles
  /\ UNCHANGED ctx
  /\ StoreIdle

storeDispatchUpdate(hexIds, owner) ==
  /\ now < MaxUpdates
  /\ now' = now + 1
  /\ ctx' = UPDATE_HEX_OWNERSHIP(ctx, hexIds, owner, now')
  /\ UNCHANGED <<hexCache, hexTiles>>
  /\ StoreIdle

NextStore ==
  \/ \E payload \in Payloads : storeLoadHexTiles(payload)
  \/ \E payload \in Payloads : storeSetHexTiles(payload)
  \/ \E hexIds \in SUBSET ClickCells \ {{}}, newOwner \in NewOwners :
       storeUpdateHexOwnership(hexIds, newOwner)
  \/ \E hexIds \in SUBSET ClickCells \ {{}}, owner \in NewOwners \ {NoOwner} :
       storeDispatchUpdate(hexIds, owner)

SpecStore == InitStore /\ [][NextStore]_vars


(***************************************************************************)
(* SpecZoom: the three tables from map zoom to H3 resolution, applied to   *)
(* a pair of zooms.  Zooms are in tenths of a zoom level.                  *)
(***************************************************************************)
\* hexUtils.getResolutionForZoom over H3_RESOLUTIONS of types/hex
getResolutionForZoom(zoom) ==
  IF zoom >= 160 THEN 10
  ELSE IF zoom >= 140 THEN 9
  ELSE IF zoom >= 120 THEN 8
  ELSE IF zoom >= 100 THEN 7
  ELSE 6

\* HexGrid.getResolutionFromZoom
getResolutionFromZoom(zoom) ==
  IF zoom >= 160 THEN 10
  ELSE IF zoom >= 140 THEN 9
  ELSE IF zoom >= 120 THEN 8
  ELSE IF zoom >= 100 THEN 7
  ELSE 6

\* h3Utils.getResolutionForZoom over H3_RESOLUTIONS of h3Utils
h3UtilsGetResolutionForZoom(zoom) ==
  IF zoom >= 180 THEN 15
  ELSE IF zoom >= 150 THEN 12
  ELSE IF zoom >= 120 THEN 9
  ELSE IF zoom >= 80 THEN 6
  ELSE 3

Zooms ==
  {0, 79, 80, 99, 100, 119, 120, 139, 140, 149, 150, 159, 160, 179, 180, 220}

InitZoom ==
  /\ InitOwn
  /\ InitDiskIdle
  /\ InitRegionIdle
  /\ InitLoad
  /\ InitCtxIdle
  /\ zoomIn \in { p \in Zooms \X Zooms : p[1] <= p[2] }
  /\ zoomOut = NoResolutions
  /\ InitSpatialIdle
  /\ InitGeo
  /\ InitARIdle
  /\ InitBalanceIdle

callHexUtilsResolution ==
  /\ zoomOut' = [zoomOut EXCEPT !.hexUtils =
       <<getResolutionForZoom(zoomIn[1]), getResolutionForZoom(zoomIn[2])>>]
  /\ UNCHANGED <<zoomIn, exceptZoomVars>>

callH3UtilsResolution ==
  /\ zoomOut' = [zoomOut EXCEPT !.h3Utils =
       <<h3UtilsGetResolutionForZoom(zoomIn[1]),
         h3UtilsGetResolutionForZoom(zoomIn[2])>>]
  /\ UNCHANGED <<zoomIn, exceptZoomVars>>

callHexGridResolution ==
  /\ zoomOut' = [zoomOut EXCEPT !.HexGrid =
       <<getResolutionFromZoom(zoomIn[1]), getResolutionFromZoom(zoomIn[2])>>]
  /\ UNCHANGED <<zoomIn, exceptZoomVars>>

NextZoom ==
  \/ callHexUtilsResolution
  \/ callH3UtilsResolution
  \/ callHexGridResolution

SpecZoom == InitZoom /\ [][NextZoom]_vars


(***************************************************************************)
(* SpecSpatial: the spatial operations of hexUtils on H3 indexes that may  *)
(* be malformed or of another resolution.  h3-js throws for those; each    *)
(* operation has its own test and catch.                                   *)
(***************************************************************************)
isValidCell(h) == h.valid

Value(v) == [kind |-> "value", value |-> v]

\* hexUtils.isHexWithinDistance
isHexWithinDistance(targetHex, centerHex, maxDistance) ==
  IF ~isValidCell(targetHex) \/ ~isValidCell(centerHex) THEN Value(FALSE)
  ELSE IF targetHex.resolution # centerHex.resolution THEN Value(FALSE)
  ELSE Value(gridDistance(centerHex.at, targetHex.at) <= maxDistance)

\* hexUtils.getNeighborHexes
getNeighborHexesOrEmpty(h3Index, radius) ==
  IF ~isValidCell(h3Index) THEN Value({})
  ELSE Value(hexUtilsGetNeighborHexes(h3Index.at, radius))

\* hexUtils.calculateBulkPurchaseCost with its catch
calculateBulkPurchaseCostOrZero(centerHex, radius, tiles) ==
  IF ~isValidCell(centerHex)
  THEN Value([totalCost |-> 0, hexIds |-> {}, availableHexes |-> << >>])
  ELSE Value(calculateBulkPurchaseCost(centerHex.at, radius, tiles))

SpatialCells == {Cell(9, Origin), Cell(9, CellB), Cell(8, Origin), InvalidCell}

InitSpatial ==
  /\ InitOwn
  /\ InitDiskIdle
  /\ InitRegionIdle
  /\ InitLoad
  /\ InitCtxIdle
  /\ InitZoomIdle
  /\ InitGeo
  /\ InitARIdle
  /\ InitBalanceIdle
  /\ cellIn \in SpatialCells \X SpatialCells \X {0, 1}
  /\ cellOut = [within |-> NotCalled, neighbors |-> NotCalled, cost |-> NotCalled]

callIsHexWithinDistance ==
  /\ cellOut' = [cellOut EXCEPT !.within =
       isHexWithinDistance(cellIn[1], cellIn[2], cellIn[3])]
  /\ UNCHANGED <<cellIn, exceptSpatialVars>>

callGetNeighborHexesOrEmpty ==
  /\ cellOut' = [cellOut EXCEPT !.neighbors =
       getNeighborHexesOrEmpty(cellIn[2], 1)]
  /\ UNCHANGED <<cellIn, exceptSpatialVars>>

callCalculateBulkPurchaseCost ==
  /\ cellOut' = [cellOut EXCEPT !.cost =
       calculateBulkPurchaseCostOrZero(cellIn[2], 3, MixedTiles)]
  /\ UNCHANGED <<cellIn, exceptSpatialVars>>

NextSpatial ==
  \/ callIsHexWithinDistance
  \/ callGetNeighborHexesOrEmpty
  \/ callCalculateBulkPurchaseCost

SpecSpatial == InitSpatial /\ [][NextSpatial]_vars


(***************************************************************************)
(* SpecBalance: the one currency of the application and the handlers that  *)
(* debit it.  A handler tests the currency of its render, awaits, and then *)
(* writes that currency less its cost; handlers of several pages can be    *)
(* suspended at once.                                                      *)
(***************************************************************************)
MaxDebits == 3

\* the cost of a scan in handleScan
ScanCost == 10

\* currency.tokens when the pages mount
Balances == {5, 150, 1100}

\* totalCost and totalPurchaseCost of a purchase
Costs == {100, 1000}

InitBalance ==
  /\ InitOwn
  /\ InitDiskIdle
  /\ InitRegionIdle
  /\ InitLoad
  /\ InitCtxIdle
  /\ InitZoomIdle
  /\ InitSpatialIdle
  /\ InitGeo
  /\ InitARIdle
  /\ balance \in Balances
  /\ debits = NoDebits

\* a handler up to its await: the test of the balance, then the closure
\* that holds the currency of this render
Suspend(kind, cost) ==
  /\ debits.started < MaxDebits
  /\ debits' =
       IF InsufficientFunds(balance, cost)
       THEN [debits EXCEPT !.started = @ + 1]
       ELSE [debits EXCEPT
               !.started = @ + 1,
               !.pending = @ \cup {[id |-> debits.started + 1, kind |-> kind,
                                    tokens |-> balance, cost |-> cost]}]
  /\ UNCHANGED balance
  /\ UNCHANGED exceptBalanceVars

\* OwnershipMap.handlePurchaseSelected up to updateMultipleHexOwnership
balancePurchaseSelected(cost) == Suspend("handlePurchaseSelected", cost)

\* OwnershipMap.handleBulkPurchase up to updateMultipleHexOwnership
balanceBulkPurchase(cost) == Suspend("handleBulkPurchase", cost)

\* ExplorationPage.handleScan up to its 2000 ms timer
handleScan == Suspend("handleScan", ScanCost)

\* the await of a handler returns: setCurrency with the closure's currency
debitAfterAwait(d) ==
  /\ d \in debits.pending
  /\ balance' = Debited(d)
  /\ debits' = [debits EXCEPT
                  !.pending = @ \ {d},
                  !.last = [kind |-> d.kind, tokens |-> d.tokens,
                            cost |-> d.cost, before |-> balance]]
  /\ UNCHANGED exceptBalanceVars

\* MapContext.purchaseSelectedHexes: the test and setCurrency before its await
balancePurchaseSelectedHexes(cost) ==
  /\ debits.started < MaxDebits
  /\ IF InsufficientFunds(balance, cost)
     THEN /\ debits' = [debits EXCEPT !.started = @ + 1]
          /\ UNCHANGED balance
     ELSE /\ balance' = Debited([tokens |-> balance, cost |-> cost])
          /\ debits' = [debits EXCEPT
                          !.started = @ + 1,
                          !.last = [kind |-> "purchaseSelectedHexes",
                                    tokens |-> balance, cost |-> cost,
                                    before |-> balance]]
  /\ UNCHANGED exceptBalanceVars

NextBalance ==
  \/ \E cost \in Costs : balancePurchaseSelected(cost)
  \/ \E cost \in Costs : balanceBulkPurchase(cost)
  \/ handleScan
  \/ \E d \in debits.pending : debitAfterAwait(d)
  \/ \E cost \in Costs : balancePurchaseSelectedHexes(cost)

SpecBalance == InitBalance /\ [][NextBalance]_vars


(***************************************************************************)
(* SpecGeo: GeolocationService, the watches navigator.geolocation holds    *)
(* for it, and its subscribers.  watchId 0 is null.  A subscriber is the   *)
(* arrow function of one subscribe call, as in useGeolocation: it sets     *)
(* state and calls nothing of the service.  The browser reports positions  *)
(* for the watches it holds.                                               *)
(***************************************************************************)
MaxWatches == 2

MaxSubscriptions == 2

MaxPositions == 2

\* navigator.geolocation.clearWatch
clearWatchNone(held, watchId) == held

clearWatch(held, watchId) == held \ {watchId}

\* the filter of the function subscribe returns
Unsubscribed(callbacks, callback) ==
  SelectSeq(callbacks, LAMBDA cb : cb # callback)

\* what stopWatching leaves of the watches
Stopped == IF geo.watchId # 0 THEN clearWatch(watches, geo.watchId) ELSE watches

startWatching ==
  /\ geo.started < MaxWatches
  /\ watches' = Stopped \cup {geo.started + 1}
  /\ geo' = [geo EXCEPT !.watchId = geo.started + 1, !.started = @ + 1,
                        !.last = "startWatching"]
  /\ UNCHANGED exceptGeoVars

stopWatching ==
  /\ watches' = Stopped
  /\ geo' = [geo EXCEPT !.watchId = 0, !.last = "stopWatching"]
  /\ UNCHANGED exceptGeoVars

subscribe ==
  /\ geo.issued < MaxSubscriptions
  /\ geo' = [geo EXCEPT !.callbacks = Append(@, geo.issued + 1),
                        !.issued = @ + 1, !.last = "subscribe"]
  /\ UNCHANGED watches
  /\ UNCHANGED exceptGeoVars

\* the function a subscribe call returned is called
unsubscribe(callback) ==
  /\ geo' = [geo EXCEPT !.callbacks = Unsubscribed(@, callback),
                        !.gone = @ \cup {callback}, !.last = "unsubscribe"]
  /\ UNCHANGED watches
  /\ UNCHANGED exceptGeoVars

\* the success callback of watchPosition: notifyCallbacks
notifyCallbacks(watchId) ==
  /\ watchId \in watches
  /\ geo.updates < MaxPositions
  /\ geo' = [geo EXCEPT !.notified = Range(geo.callbacks), !.updates = @ + 1,
                        !.last = "notifyCallbacks"]
  /\ UNCHANGED watches
  /\ UNCHANGED exceptGeoVars

destroy ==
  /\ watches' = Stopped
  /\ geo' = [geo EXCEPT !.watchId = 0, !.callbacks = << >>,
                        !.gone = 1 .. geo.issued, !.last = "destroy"]
  /\ UNCHANGED exceptGeoVars

NextGeo ==
  \/ startWatching
  \/ stopWatching
  \/ subscribe
  \/ \E callback \in 1 .. geo.issued : unsubscribe(callback)
  \/ \E watchId \in watches : notifyCallbacks(watchId)
  \/ destroy

SpecGeo == Init /\ [][NextGeo]_vars


(***************************************************************************)
(* SpecAR: ARCollectionPage with the camera on: the AR objects on screen,  *)
(* the active capture, the motion of the device, the inventory and the     *)
(* tokens.  itemId 0 is no capture.                                        *)
(***************************************************************************)
MaxObjects == 3

\* calculateItemValue of a common and of an uncommon item
ItemValues == {100, 300}

\* the progress updateProgress computes from the elapsed time
Progress == {50, 100}

InitAR ==
  /\ InitOwn
  /\ InitDiskIdle
  /\ InitRegionIdle
  /\ InitLoad
  /\ InitCtxIdle
  /\ InitZoomIdle
  /\ InitSpatialIdle
  /\ InitGeo
  /\ InitBalanceIdle
  /\ ar = [isMoving |-> FALSE, activeCapture |-> NoCapture, arObjects |-> {},
           inventory |-> << >>, tokens |-> 0, made |-> 0, last |-> "none"]

\* setArObjects(objects) with 1..2 objects of fresh ids
generateARObjects(objectCount, value) ==
  /\ ar.made + objectCount <= MaxObjects
  /\ ar' = [ar EXCEPT
              !.arObjects = { [id |-> i, value |-> value] :
                                i \in ar.made + 1 .. ar.made + objectCount },
              !.made = @ + objectCount,
              !.last = "generateARObjects"]
  /\ UNCHANGED exceptARVars

startCapture(item) ==
  /\ item \in ar.arObjects
  /\ ar' = IF ar.isMoving THEN [ar EXCEPT !.last = "startCapture: moving"]
           ELSE IF ar.activeCapture # NoCapture
           THEN [ar EXCEPT !.last = "startCapture: in progress"]
           ELSE [ar EXCEPT !.activeCapture = [itemId |-> item.id, progress |-> 0],
                           !.last = "startCapture"]
  /\ UNCHANGED exceptARVars

handleDeviceMotion(isCurrentlyMoving) ==
  /\ ar' = IF isCurrentlyMoving # ar.isMoving
           THEN [ar EXCEPT
                   !.isMoving = isCurrentlyMoving,
                   !.activeCapture =
                      IF isCurrentlyMoving /\ ar.activeCapture # NoCapture
                      THEN NoCapture ELSE @,
                   !.last = "handleDeviceMotion"]
           ELSE [ar EXCEPT !.last = "handleDeviceMotion"]
  /\ UNCHANGED exceptARVars

\* completeCapture on the state updateProgress has left
completeCapture(state) ==
  LET found == { obj \in state.arObjects : obj.id = state.activeCapture.itemId }
  IN  IF found = {} THEN state
      ELSE LET item == CHOOSE obj \in found : TRUE
               reward == item.value \div 10
           IN  [state EXCEPT !.inventory = Append(@, item),
                             !.tokens = @ + reward,
                             !.arObjects = @ \ {item},
                             !.activeCapture = NoCapture]

\* a tick of the 50 ms interval of the capture
updateProgress(progress) ==
  /\ ar.activeCapture # NoCapture
  /\ progress >= ar.activeCapture.progress
  /\ LET shown == [ar EXCEPT !.activeCapture.progress = progress]
     IN  ar' = IF progress >= 100
               THEN [completeCapture(shown) EXCEPT !.last = "completeCapture"]
               ELSE [shown EXCEPT !.last = "updateProgress"]
  /\ UNCHANGED exceptARVars

cancelCapture ==
  /\ ar' = [ar EXCEPT !.activeCapture = NoCapture, !.last = "cancelCapture"]
  /\ UNCHANGED exceptARVars

NextAR ==
  \/ \E objectCount \in 1 .. 2, value \in ItemValues :
       generateARObjects(objectCount, value)
  \/ \E item \in ar.arObjects : startCapture(item)
  \/ \E isCurrentlyMoving \in BOOLEAN : handleDeviceMotion(isCurrentlyMoving)
  \/ \E progress \in Progress : updateProgress(progress)
  \/ cancelCapture

SpecAR == InitAR /\ [][NextAR]_vars

(***************************************************************************)
(* Properties.                                                             *)
(***************************************************************************)
\* a step that completes the oldest attempt (the only step that shortens
\* the queue), and the attempt it completes
Commits == Len(inflight') < Len(inflight)

Committing == Advance(inflight[1])

Ids(a) == Range(a.hexIds)

\* cells of the attempt that were free in the cache when it wrote them
WasFree(a) ==
  { a.hexIds[j] : j \in { i \in 1..Len(a.before) : a.before[i] = "free" } }

\* every target cell had a tile in the cache when the handler ran
Known(a) == \A c \in DOMAIN a.seen : a.seen[c] # "absent"

\* a cell the attempt saw free was no longer free when the attempt wrote it
Stale(a) == ~((Ids(a) \cap Eligible(a)) \subseteq WasFree(a))

\* C1: a committed purchase of N cells costing C lowers the balance by
\* exactly C and turns exactly those N cells into owned ones; in particular
\* there is no debit when no tile changes.
C1_PurchaseAtomicity ==
  [][(Commits /\ Known(Committing)) =>
       /\ tokens - tokens' = Committing.cost
       /\ Became(Committing) = Ids(Committing)]_vars

\* C2: every cell is granted and charged for by at most one of the attempts
\* that saw it free.
C2_GrantedAtMostOnce == \A c \in DOMAIN grants : grants[c] <= 1

\* C3: when the status of a target cell changed between validation and
\* commit, the commit writes only cells that are free in the cache at that
\* time and charges the price of those cells only.
C3_RevalidateOnCommit ==
  [][(Commits /\ Stale(Committing)) =>
       /\ Successful(Committing) \subseteq WasFree(Committing)
       /\ tokens - tokens' = SumPrice(WasFree(Committing), hexCache)]_vars

\* C4: an ownership change with a non-null owner leaves every tile that is
\* not free (owned or enemy) with its status and its owner.
C4_OnlyFreeTilesChange ==
  [][\A c \in DOMAIN hexCache :
       hexCache[c].ownershipStatus # "free" =>
          /\ hexCache'[c].ownershipStatus = hexCache[c].ownershipStatus
          /\ hexCache'[c].owner = hexCache[c].owner]_vars

\* C5: the cost of a purchase that passed validation is the sum of the
\* stored prices of the free cells of its target, and only those cells are
\* handed to the commit.
C5_CostOfEligibleCells ==
  \A i \in 1..Len(inflight) :
    Known(inflight[i]) =>
      /\ inflight[i].cost = SumPrice(Eligible(inflight[i]), hexCache)
      /\ Ids(inflight[i]) = Eligible(inflight[i])

\* C6: a purchase whose total cost (the prices of the free cells of its
\* target) exceeds the balance is rejected: it never passes validation.
C6_InsufficientFundsRejected ==
  \A i \in 1..Len(inflight) :
    SumPrice(Eligible(inflight[i]), hexCache) <= inflight[i].tokens

\* C7: a purchase whose target holds no free cell is rejected: it never
\* passes validation, for the selection as for the bulk purchase.
C7_NoEligibleCellsRejected ==
  \A i \in 1..Len(inflight) :
    Known(inflight[i]) => Eligible(inflight[i]) # {}

\* C8: a purchase of the cell set that has just been committed is rejected:
\* it never passes validation.
C8_RepeatedPurchaseRejected ==
  \A i \in 1..Len(inflight) : ~inflight[i].repeat

\* C9: a bulk purchase around a center whose disk of radius 3 is 37 free
\* cells at price 100, started with balance 5000 and nothing else in
\* flight, commits: it writes the 37 cells of the disk, all of them become
\* owned, and the balance becomes 1300.
C9_BulkPurchaseOfFreeDisk ==
  [][(/\ Commits
      /\ Committing.kind = "bulk"
      /\ Committing.alone
      /\ Committing.tokens = 5000
      /\ Committing.target = gridDisk(Origin, 3)
      /\ Eligible(Committing) = Committing.target
      /\ \A c \in Committing.target : hexCache[c].price = 100)
     =>
     (/\ Ids(Committing) = gridDisk(Origin, 3)
      /\ Cardinality(Became(Committing)) = 37
      /\ \A c \in gridDisk(Origin, 3) : hexCache'[c].ownershipStatus = "owned"
      /\ tokens' = 1300
      /\ notification' = Purchased(37, 3700))]_vars

C9_Witness ==
  /\ tokens = 1300
  /\ notification = Purchased(37, 3700)
  /\ justCommitted = gridDisk(Origin, 3)
  /\ \A c \in gridDisk(Origin, 3) :
       hexCache[c].ownershipStatus = "owned" /\ grants[c] = 1

C16_RegionClassification ==
  LET lat == regionIn[1]
      lon == regionIn[2]
      Right(r) ==
        /\ r \in {"moscow", "london"}
        /\ MoscowBox(lat, lon) => r = "moscow"
        /\ LondonBox(lat, lon) => r = "london"
        /\ (~MoscowBox(lat, lon) /\ ~LondonBox(lat, lon)) => r = "moscow"
  IN  /\ ~(MoscowBox(lat, lon) /\ LondonBox(lat, lon))
      /\ regionOut.ds # "none" => Right(regionOut.ds)
      /\ regionOut.hts # "none" => Right(regionOut.hts)
      /\ (regionOut.ds # "none" /\ regionOut.hts # "none") =>
           regionOut.ds = regionOut.hts

C16_Witness ==
  /\ regionOut.ds = "moscow"
  /\ regionOut.hts = "moscow"
  /\ ~MoscowBox(regionIn[1], regionIn[2])
  /\ ~LondonBox(regionIn[1], regionIn[2])

\* C11: between two invalidations of a region a loader performs at most one
\* backing fetch for it: a second load of the region is served from the
\* cache.
C11_OneFetchPerRegion ==
  \A ld \in Loaders, r \in RegionNames : fetched[ld][r] <= 1

\* C12: clearRegionCache(region) removes the entry of that region and leaves
\* every other entry of either cache as it was; clearCache of a service
\* leaves no entry in its cache.
C12_InvalidateFrame ==
  [][/\ loadOp'.fn = "clearRegionCache" =>
          /\ regionCache'[loadOp'.region] = Absent
          /\ \A r \in RegionNames \ {loadOp'.region} :
               regionCache'[r] = regionCache[r]
          /\ serviceCache' = serviceCache
     /\ loadOp'.fn = "clearCache" =>
          \A r \in RegionNames : regionCache'[r] = Absent
     /\ loadOp'.fn = "hexTileService.clearCache" =>
          \A r \in RegionNames : serviceCache'[r] = Absent]_vars

C12_Witness ==
  /\ loadOp = [fn |-> "clearRegionCache", region |-> "moscow"]
  /\ regionCache["moscow"] = Absent
  /\ regionCache["london"] # Absent
  /\ \E x \in loaded :
       /\ x.loader = "DataService"
       /\ x.cause = "ok"
       /\ getRegionByCoordinates(x.point[1], x.point[2]) = "moscow"

\* C13: once the newest load of the hook has delivered, the tile set the
\* hook shows is the one of that load's region: a result of an older load
\* that arrives later does not replace it.
C13_StaleResponseGuard ==
  hook.newest.seq > 0 =>
    getRegionByCoordinates(hook.shown[1], hook.shown[2]) =
      getRegionByCoordinates(hook.newest.point[1], hook.newest.point[2])

\* C14: a payload without a tiles array makes the load fail with an error:
\* the load returns no tile list for it, and no cache holds the payload.
C14_MalformedIsHardError ==
  /\ \A r \in RegionNames :
       serviceCache[r] # Absent => serviceCache[r].tiles # Undefined
  /\ \A x \in loaded : x.cause = "malformed" => x.value.kind = "error"

\* C15: two loads of the same point whose fetch failed return the same
\* result, whichever loader served them.
C15_SameFailurePolicy ==
  \A x, y \in loaded :
    (x.cause = "failed" /\ y.cause = "failed" /\ x.point = y.point) =>
      x.value = y.value

\* C17: in the cache of DataService, in the array of useHexTiles and in the
\* tiles of MapContext a tile has no owner exactly when its status is free.
OwnerIffFree(tiles) ==
  \A c \in DOMAIN tiles :
    (tiles[c].owner = NoOwner) <=> (tiles[c].ownershipStatus = "free")

C19_SavedSnapshotHasPurchase ==
  (purchaseOut.kind = "purchased" /\ purchaseOut.region # "none"
     /\ serviceCache[purchaseOut.region] # Absent) =>
    LET tiles == serviceCache[purchaseOut.region].tiles.tiles
    IN  \A c \in purchaseOut.hexIds \cap DOMAIN tiles :
          tiles[c].ownershipStatus = "owned"

\* C18: the array of useHexTiles, which the panels and the overlay render,
\* shows for every tile the status and the owner the cache of DataService
\* holds, and it never shows a cell of a batch as changed while updates of
\* that batch are still to come.
PartiallyApplied(a) ==
  \E i \in 1..Len(a.results) :
    /\ a.before[i] # "owned"
    /\ a.hexIds[i] \in DOMAIN hexTiles
    /\ HexTilesView[a.hexIds[i]].ownershipStatus = "owned"

C18_ConsumersSeeOneSnapshot ==
  /\ \A c \in DOMAIN hexTiles \cap DOMAIN hexCache :
       /\ HexTilesView[c].ownershipStatus = hexCache[c].ownershipStatus
       /\ HexTilesView[c].owner = hexCache[c].owner
  /\ inflight # << >> => ~PartiallyApplied(inflight[1])

\* C20: a purchase of which some cell could not be updated in the cache
\* ends with an outcome that is neither the success message nor one of the
\* validation rejections.
C20_PersistFailureSurfaced ==
  [][(Commits /\ \E i \in 1..Len(Committing.results) : ~Committing.results[i])
       => notification'.kind \notin
            {"Purchased", "NotEnoughTokens", "NoAvailableHexes"}]_vars

\* C21: the selection is empty after every committed purchase, of a
\* selection or of a disk alike, and a rejected purchase leaves the
\* selection as it was.
C21_SelectionClearedOnCommit ==
  [][/\ Commits => selectedHexes' = {}
     /\ (notification' # notification
           /\ notification'.kind \in {"NotEnoughTokens", "NoAvailableHexes"})
          => selectedHexes' = selectedHexes]_vars

\* C22: each table from zoom to resolution is monotone and has at least
\* five tiers, and the three tables give the same resolution for every
\* zoom.
C22_ResolutionTablesAgree ==
  LET Tables == {"hexUtils", "h3Utils", "HexGrid"}
      Called(t) == zoomOut[t] # << >>
  IN  /\ \A t \in Tables : Called(t) => zoomOut[t][1] <= zoomOut[t][2]
      /\ Cardinality({ getResolutionForZoom(z) : z \in Zooms }) >= 5
      /\ Cardinality({ getResolutionFromZoom(z) : z \in Zooms }) >= 5
      /\ Cardinality({ h3UtilsGetResolutionForZoom(z) : z \in Zooms }) >= 5
      /\ \A t, u \in Tables : (Called(t) /\ Called(u)) => zoomOut[t] = zoomOut[u]

\* C23: a write of a tile sets its lastUpdated to the time of the write,
\* which is later than the one it had; no tile's lastUpdated decreases, no
\* tile's price changes and no tile leaves the set; a tile that is not
\* written stays as it was.
TilesKept(old, new, t) ==
  /\ DOMAIN old \subseteq DOMAIN new
  /\ \A c \in DOMAIN old :
       /\ new[c].price = old[c].price
       /\ new[c].lastUpdated >= old[c].lastUpdated
       /\ new[c] # old[c] =>
            (new[c].lastUpdated = t /\ t > old[c].lastUpdated)

C24_InvalidCellIsAnError ==
  LET targetHex == cellIn[1]
      centerHex == cellIn[2]
      Undefined2 == ~isValidCell(targetHex) \/ ~isValidCell(centerHex)
                      \/ targetHex.resolution # centerHex.resolution
  IN  /\ (cellOut.within # NotCalled /\ Undefined2) =>
           cellOut.within.kind = "error"
      /\ (cellOut.neighbors # NotCalled /\ ~isValidCell(centerHex)) =>
           cellOut.neighbors.kind = "error"
      /\ (cellOut.cost # NotCalled /\ ~isValidCell(centerHex)) =>
           cellOut.cost.kind = "error"

\* the newest request of the hook has delivered and no load of the hook is
\* still on its way
Settled(h, pending) ==
  /\ h.seq > 0
  /\ h.newest.seq = h.seq
  /\ \A l \in pending : l.caller # "hook"

\* C25: a request of the hook within the threshold of the last loaded
\* location starts no load and leaves the tile set as it is; any other
\* request loads, and once the hook's requests have delivered the tile set
\* shown is the one of the region of the newest request.
C25_ThresholdDecidesRefetch ==
  [][/\ loadOp'.fn = "loadHexTiles" =>
          IF hook.lastLoadedLocation # NoPoint
               /\ Near(hook.lastLoadedLocation, hook.location)
          THEN /\ fetched' = fetched
               /\ loadCount' = loadCount
               /\ hook'.hexTiles = hook.hexTiles
          ELSE loadCount' = loadCount + 1
     /\ Settled(hook', loading') =>
          getRegionByCoordinates(hook'.shown[1], hook'.shown[2]) =
            getRegionByCoordinates(hook'.newest.point[1], hook'.newest.point[2])]_vars

\* C26: the total purchase cost of MapContext is the sum of the prices the
\* current tiles give the selected hexes, and 0 for an empty selection.
C26_TotalIsPriceOfSelection ==
  ctx.totalPurchaseCost = PriceOf(ctx, ctx.selectedHexes)

\* C27: the token balance is never negative, however the purchases and the
\* scans interleave.
C27_BalanceNeverNegative == balance >= 0

\* a scan debits with the currency of its render after a purchase has
\* already debited
C27_Witness ==
  /\ debits.last.kind = "handleScan"
  /\ debits.last.before < debits.last.tokens
  /\ balance = debits.last.tokens - ScanCost

\* the cache entry a loader keeps for the region of a point
EntryOf(loader, point, dsCache, htsCache) ==
  IF loader = "DataService"
  THEN dsCache[getRegionByCoordinates(point[1], point[2])]
  ELSE htsCache[hexTileServiceGetRegionByCoordinates(point[1], point[2])]

\* C28: when a load returns from a fetch that failed, the cache of its
\* loader has no entry for the region of the load.
C28_FailureLeavesNoEntry ==
  [][\A l \in loading \ loading' :
       \A x \in loaded' \ loaded :
         (x.loader = l.loader /\ x.point = l.point /\ x.cause = "failed") =>
           EntryOf(l.loader, l.point, regionCache', serviceCache') = Absent]_vars

Reaches100 ==
  /\ ar.activeCapture # NoCapture
  /\ ar.activeCapture.progress < 100
  /\ ar'.last = "completeCapture"

\* C30: startCapture starts nothing while the device moves or a capture is
\* active; when the device starts to move the active capture is dropped
\* with no item and no reward; a capture that reaches 100% ends, puts its
\* item in the inventory once and credits the reward of that item once.
C30_CaptureCompletesOnce ==
  [][/\ (ar'.last \in {"startCapture: moving", "startCapture: in progress"}) =>
          ar'.activeCapture = ar.activeCapture
     /\ (~ar.isMoving /\ ar'.isMoving) =>
          /\ ar'.activeCapture = NoCapture
          /\ ar'.inventory = ar.inventory
          /\ ar'.tokens = ar.tokens
     /\ Reaches100 =>
          /\ ar'.activeCapture = NoCapture
          /\ Len(ar'.inventory) = Len(ar.inventory) + 1
          /\ ar'.inventory[Len(ar'.inventory)].id = ar.activeCapture.itemId
          /\ ar'.tokens =
               ar.tokens + (ar'.inventory[Len(ar'.inventory)].value \div 10)]_vars

====
